---------------------------- MODULE Spec2Model ----------------------------
(***************************************************************************)
(* Model of the download scheduler of dlp-gui: DownloadManager and         *)
(* DownloadThread (src/Core/threads.py) with Downloader.download           *)
(* (src/Core/downloader.py).                                               *)
(*                                                                         *)
(* Threads of the program:                                                 *)
(*   - the GUI thread, which calls the manager's public methods one at a   *)
(*     time (variable gui is its position inside a method);                *)
(*   - the manager thread, DownloadManager.run (variable mpc);             *)
(*   - one thread per started DownloadThread (variables tpc, cbpc).        *)
(*                                                                         *)
(* Locking as the code has it: only add_download and                       *)
(* _process_download_queue hold the manager mutex (QMutexLocker).          *)
(* pause, resume, cancel, remove_download and the hook write               *)
(* "with QMutex(self._mutex)" instead. PyQt6 is not among the sources:     *)
(* the statement either raises TypeError (QMutex() takes no argument and   *)
(* is no context manager) or enters its body with a mutex of its own,      *)
(* which excludes nobody. Both outcomes are modelled (WithQMutex).         *)
(* DownloadThread.run takes no lock at all, so every method but the two    *)
(* above is a sequence of steps that interleaves with the threads.         *)
(***************************************************************************)
EXTENDS Integers, Sequences, FiniteSets, TLC

\* ------------------------------------------------------------- bounds
\* Number of DownloadThread objects add_download may construct.
MaxJobs == 3
\* Largest max_concurrent_downloads the constructor or the setter is given.
MaxConc == 2
\* Number of progress events the executor delivers to one job's hook.
MaxEvents == 2
\* pause_download is called for a job only while fewer samples than this
\* have been emitted for it.
MaxSamples == 3
\* Largest byte count of a progress event.
MaxBytes == 8
\* _cache_max_size of the ContentBlocker (1000 in the code) and the number of
\* entries a full cache loses (100 in the code), scaled down.
CacheMaxSize == 2
EvictBatch == 1
\* max_items of RecentManager (20 in the code) and RecentFoldersManager (10 in
\* the code), scaled down, and the number of add calls.
MaxItems == 2
MaxAdds == 4

Jobs == 1..MaxJobs
\* int(time.time()) counted from the second the manager was built in: job k is
\* built at most k-1 seconds later in the model, since only the equality of
\* two ids matters and the clock advances by at most a second between two
\* constructions.
Ids == 0..(MaxJobs - 1)

\* DownloadStatus
PENDING == "pending"
DOWNLOADING == "downloading"
PAUSED == "paused"
COMPLETED == "completed"
FAILED == "failed"
CANCELLED == "cancelled"
Terminal == {COMPLETED, FAILED, CANCELLED}

\* The status values of a yt-dlp progress event.
EventStatus == {"downloading", "finished", "error"}

VARIABLES
    \* DownloadManager
    max_concurrent_downloads, \* the bound
    active_downloads,         \* dict download_id -> job
    download_queue,           \* list of jobs
    completed_downloads,      \* list of download_ids
    is_running,               \* _is_running
    mpc,                      \* position of the manager thread
    slots,                    \* iterations left of the loop at line 525
    hand,                     \* job popped at line 527, not yet inserted (0: none)
    \* DownloadThread, one entry per job
    tpc,                      \* position of the job's thread
    download_id,              \* download_id
    status,                   \* _current_progress.status
    is_paused,                \* _is_paused
    is_cancelled,             \* _is_cancelled (== _should_stop)
    error_message,            \* _current_progress.error_message
    error_type,               \* error_type of the last error_occurred emission
    cbpc,                     \* position inside _progress_callback
    ev,                       \* the event the callback was called with
    fresh,                    \* time.time() - _last_update_time < _update_interval
    events,                   \* progress events delivered so far
    \* observers
    terminal_events,          \* download_completed + download_cancelled emissions
    samples,                  \* progress_updated emissions
    start_order,              \* jobs in the order start() was called on them
    \* environment
    now,                      \* int(time.time())
    gui,                      \* position of the GUI thread
    \* the objects the scheduler does not touch
    current_progress,         \* the numbers of a DownloadProgress sample
    dl,                       \* the last call of Downloader.download
    blocker,                  \* a ContentBlocker
    recent                    \* a RecentManager

mgrVars == <<max_concurrent_downloads, active_downloads, download_queue,
             completed_downloads, is_running, mpc, slots, hand>>
jobVars == <<tpc, download_id, status, is_paused, is_cancelled>>
cbVars == <<cbpc, ev, fresh, events>>
errVars == <<error_message, error_type>>
obsVars == <<terminal_events, samples, start_order>>
schedVars == <<mgrVars, jobVars, errVars, cbVars, obsVars, now, gui>>
libVars == <<current_progress, dl, blocker, recent>>
vars == <<schedVars, libVars>>

\* ------------------------------------------------------------ helpers
Range(s) == {s[i] : i \in DOMAIN s}

Min(a, b) == IF a < b THEN a ELSE b

\* A dict download_id -> job is a function on Ids; 0 marks a key that is absent.
NoJob == 0
EmptyDict == [i \in Ids |-> NoJob]
Keys(d) == {i \in Ids : d[i] # NoJob}
Values(d) == {d[i] : i \in Keys(d)}
DictLen(d) == Cardinality(Keys(d))

\* list.pop(i)
ListPop(s, i) == [k \in 1..(Len(s) - 1) |-> IF k < i THEN s[k] ELSE s[k + 1]]

\* The ids of a set as a list, in increasing order.
RECURSIVE IdList(_)
IdList(S) ==
    IF S = {} THEN <<>>
    ELSE LET m == CHOOSE i \in S : \A k \in S : i <= k
         IN <<m>> \o IdList(S \ {m})

\* Jobs constructed so far.
Created == {j \in Jobs : tpc[j] # "none"}

\* The outcomes of "with QMutex(self._mutex):", see the head of the module.
WithQMutex == {"raises", "enters"}

\* QThread.isRunning() of a job: started and run() not yet returned.
IsRunning(j) == tpc[j] \in {"start", "validate", "exec"}

\* ------------------------------------------- objects outside the scheduler
\* A float is the fraction num/den of two integers, den > 0.
Fraction(num, den) == [num |-> num, den |-> den]

\* total_bytes of a sample that has none (None).
NoTotal == -1

\* DownloadProgress(status), lines 27-31: the defaults of the numeric fields.
NewProgress ==
    [progress |-> Fraction(0, 1), downloaded_bytes |-> 0, total_bytes |-> NoTotal]

\* Downloader.download has not been called: a call is at a phase ("running",
\* "returned", "raised"), with the kind of callback it was given, the
\* messages the callback has received, the last message logged and the value
\* returned.
NoCall ==
    [phase |-> "none", cb |-> "none", msgs |-> <<>>, log |-> "", value |-> FALSE]

\* A domain string is its dot-separated labels and what follows the host in
\* a netloc (":8080", or "" for nothing): two strings are equal iff the
\* records are.
Name(labels, port) == [labels |-> labels, port |-> port]

\* The domains rules and whitelist entries are made of.
RuleDomains == {Name(<<"site", "com">>, ""), Name(<<"tube", "com">>, "")}
Keywords == {"adult"}
Patterns == {"xxx"}

\* ContentBlocker.__init__, lines 77-100, with no rules file: the default
\* rules are enabled, the whitelist and the cache are empty.
NewBlocker ==
    [domain_rules |-> [d \in RuleDomains |-> IF d.labels[1] = "tube" THEN "enabled" ELSE "absent"],
     keyword_rules |-> [k \in Keywords |-> "enabled"],
     pattern_rules |-> [p \in Patterns |-> "enabled"],
     whitelist |-> {},
     cache |-> <<>>,
     returned |-> [is_blocked |-> FALSE, cache_hit |-> FALSE]]

\* RecentManager() and RecentFoldersManager() as the main window builds them
\* (main_window.py lines 764-765) over a new recent_downloads.json: the
\* default max_items of each, the stored items (the file), the folders, the
\* paths that exist as files, and the clock download_time is read from.
RecentFiles == {"/d/a", "/d/b", "/d/c"}
NewRecent ==
    [max_items |-> MaxItems,
     stored |-> <<>>,
     folders_max_items |-> MaxItems,
     recent_folders |-> <<>>,
     files |-> RecentFiles,
     clock |-> 0]

\* The state of the objects the scheduler does not touch while only the
\* scheduler is looked at.
LibInit ==
    /\ current_progress = NewProgress
    /\ dl = NoCall
    /\ blocker = NewBlocker
    /\ recent = NewRecent

\* --------------------------------------------------------------- Init
\* DownloadManager.__init__ (no job constructed yet).
Init ==
    /\ max_concurrent_downloads \in 1..MaxConc
    /\ active_downloads = EmptyDict
    /\ download_queue = <<>>
    /\ completed_downloads = <<>>
    /\ is_running = FALSE
    /\ mpc = "stopped"
    /\ slots = 0
    /\ hand = NoJob
    /\ tpc = [j \in Jobs |-> "none"]
    /\ download_id = [j \in Jobs |-> 0]
    /\ status = [j \in Jobs |-> PENDING]
    /\ is_paused = [j \in Jobs |-> FALSE]
    /\ is_cancelled = [j \in Jobs |-> FALSE]
    /\ error_message = [j \in Jobs |-> <<>>]
    /\ error_type = [j \in Jobs |-> "none"]
    /\ cbpc = [j \in Jobs |-> "idle"]
    /\ ev = [j \in Jobs |-> "none"]
    /\ fresh = [j \in Jobs |-> FALSE]
    /\ events = [j \in Jobs |-> 0]
    /\ terminal_events = [j \in Jobs |-> 0]
    /\ samples = [j \in Jobs |-> 0]
    /\ start_order = <<>>
    /\ now = 0
    /\ gui = <<"idle">>
    /\ LibInit

\* ===================================================== DownloadThread
\* Every definition below takes the job j it acts on.

\* A string is the list of the pieces it is put together from: an f-string
\* is the concatenation of its pieces, and "" is the empty list.
Str(piece) == <<piece>>

\* An error handler that stores no message and emits no kind: the one
\* C19_RunEndsFailedWithMessage has to tell from the handler of the code.
HandleErrorSilent(j, kind, message) ==
    /\ status' = [status EXCEPT ![j] = FAILED]
    /\ UNCHANGED errVars
    /\ terminal_events' = [terminal_events EXCEPT ![j] = @ + 1]
    /\ samples' = [samples EXCEPT ![j] = @ + 1]

\* An error handler that fails every job the manager knows: the one
\* C20_FailureIsIsolated has to tell from the handler of the code.
HandleErrorAll(j, kind, message) ==
    /\ status' = [k \in Jobs |-> IF tpc[k] # "none" THEN FAILED ELSE status[k]]
    /\ error_message' = [error_message EXCEPT ![j] = message]
    /\ error_type' = [error_type EXCEPT ![j] = kind]
    /\ terminal_events' = [terminal_events EXCEPT ![j] = @ + 1]
    /\ samples' = [samples EXCEPT ![j] = @ + 1]

\* _handle_error(error_type, error_message): the status becomes FAILED
\* whatever it was and the message is stored; progress_updated,
\* error_occurred(error_type, error_message) and download_completed(False, ...)
\* are emitted.
HandleError(j, kind, message) ==
    /\ status' = [status EXCEPT ![j] = FAILED]
    /\ error_message' = [error_message EXCEPT ![j] = message]
    /\ error_type' = [error_type EXCEPT ![j] = kind]
    /\ terminal_events' = [terminal_events EXCEPT ![j] = @ + 1]
    /\ samples' = [samples EXCEPT ![j] = @ + 1]

\* run, lines 86-88: the first statements of the started thread.
RunBegin(j) ==
    /\ tpc[j] = "start"
    /\ tpc' = [tpc EXCEPT ![j] = "validate"]
    /\ status' = [status EXCEPT ![j] = DOWNLOADING]
    /\ UNCHANGED <<mgrVars, download_id, is_paused, is_cancelled, cbVars,
                   obsVars, now, libVars, gui, errVars>>

\* What a job can be constructed with, as far as lines 176-195 tell it apart.
JobInputs == {"valid", "empty_url", "empty_path", "unwritable", "mkdir_fails"}
InvalidInputs == JobInputs \ {"valid"}

\* _validate_inputs and _setup_output_directory (lines 176-195): the
\* exception they raise, with the error_type run hands to _handle_error at
\* lines 128-133, or "none".
ValidationError(input) ==
    CASE input = "empty_url" ->
           [kind |-> "validation", message |-> Str("Invalid URL provided")]
      [] input = "empty_path" ->
           [kind |-> "validation", message |-> Str("Output path not specified")]
      [] input = "unwritable" ->
           [kind |-> "storage",
            message |-> Str("Output directory is not writable: ") \o Str("output_dir")]
      [] input = "mkdir_fails" ->
           [kind |-> "storage",
            message |-> Str("Failed to create output directory: ") \o Str("OSError")]
      [] OTHER -> [kind |-> "none", message |-> <<>>]

\* run, lines 92-95: _validate_inputs and _setup_output_directory either
\* return or raise DownloadValidationError / DownloadStorageError, which
\* run catches at lines 128-133.
Validate(j, input) ==
    /\ tpc[j] = "validate"
    /\ LET e == ValidationError(input) IN
          IF e.kind = "none"
          THEN /\ tpc' = [tpc EXCEPT ![j] = "exec"]
               /\ UNCHANGED <<status, terminal_events, samples, errVars>>
          ELSE /\ tpc' = [tpc EXCEPT ![j] = "done"]
               /\ HandleError(j, e.kind, e.message)
    /\ UNCHANGED <<mgrVars, download_id, is_paused, is_cancelled, cbVars,
                   start_order, now, libVars, gui>>

\* Downloader.download returns a bool on every path (lines 73, 98, 105, 112).
DownloaderDownload(ydl_ok) == [type |-> "bool", value |-> ydl_ok]

\* "success, file_paths = ..." at line 101 needs a 2-element iterable.
Unpackable(ret) == ret.type = "tuple"

\* str(e) of the TypeError line 101 raises for a bool.
UnpackError == Str("cannot unpack non-iterable bool object")

\* run, lines 101-135, once the executor has returned ret. Unpacking a bool
\* raises TypeError, caught at line 134.
RunAfterDownload(j, ret) ==
    IF ~Unpackable(ret)
    THEN HandleError(j, "unknown", Str("Unexpected error: ") \o UnpackError)
    ELSE IF is_cancelled[j]
    THEN /\ status' = [status EXCEPT ![j] = CANCELLED]
         /\ terminal_events' = [terminal_events EXCEPT ![j] = @ + 1]
         /\ UNCHANGED <<samples, errVars>>
    ELSE IF ret.success /\ ret.file_paths
    THEN /\ status' = [status EXCEPT ![j] = COMPLETED]
         /\ terminal_events' = [terminal_events EXCEPT ![j] = @ + 1]
         /\ samples' = [samples EXCEPT ![j] = @ + 1]
         /\ UNCHANGED errVars
    ELSE /\ status' = [status EXCEPT ![j] = FAILED]
         /\ error_message' = [error_message EXCEPT ![j] =
                                 Str("Download failed - no files were downloaded")]
         /\ terminal_events' = [terminal_events EXCEPT ![j] = @ + 1]
         /\ samples' = [samples EXCEPT ![j] = @ + 1]
         /\ UNCHANGED error_type

\* The executor returns to run (no hook call is in progress), having
\* succeeded (ydl_ok) or not, and run ends.
ExecReturns(j, ydl_ok) ==
    /\ tpc[j] = "exec"
    /\ cbpc[j] = "idle"
    /\ tpc' = [tpc EXCEPT ![j] = "done"]
    /\ RunAfterDownload(j, DownloaderDownload(ydl_ok))
    /\ UNCHANGED <<mgrVars, download_id, is_paused, is_cancelled, cbVars,
                   start_order, now, libVars, gui>>

ExecReturn(j) == \E ydl_ok \in BOOLEAN : ExecReturns(j, ydl_ok)

\* QWaitCondition.wakeAll: every context waiting on the job's condition
\* is released.
WakeAll(j) == [cbpc EXCEPT ![j] = IF @ = "waiting" THEN "woken" ELSE @]

\* pause, line 140: the test of the status.
PauseTest(j) == status[j] = DOWNLOADING

\* pause, lines 141-143.
PauseSet(j) ==
    /\ is_paused' = [is_paused EXCEPT ![j] = TRUE]
    /\ status' = [status EXCEPT ![j] = PAUSED]
    /\ samples' = [samples EXCEPT ![j] = @ + 1]

\* resume, line 148: the test of the status.
ResumeTest(j) == status[j] = PAUSED

\* resume, lines 149-152.
ResumeSet(j) ==
    /\ is_paused' = [is_paused EXCEPT ![j] = FALSE]
    /\ status' = [status EXCEPT ![j] = DOWNLOADING]
    /\ samples' = [samples EXCEPT ![j] = @ + 1]
    /\ cbpc' = WakeAll(j)

\* cancel, lines 157-160, for every job of the set js.
Cancel(js) ==
    /\ is_cancelled' = [j \in Jobs |-> IF j \in js THEN TRUE ELSE is_cancelled[j]]
    /\ cbpc' = [j \in Jobs |-> IF j \in js /\ is_paused[j] THEN WakeAll(j)[j]
                                ELSE cbpc[j]]

\* ------------------------------------------- _progress_callback (the hook)
\* Lines 199-216 for an event e of the executor: the throttle, the test of
\* the cancel flag and the test of the pause flag. With the pause flag set
\* the context goes on to call wait() (CbWait), otherwise to the handlers.
CbEnter(j, e) ==
    /\ tpc[j] = "exec"
    /\ cbpc[j] = "idle"
    /\ events[j] < MaxEvents
    /\ events' = [events EXCEPT ![j] = @ + 1]
    /\ IF fresh[j] \/ is_cancelled[j]
       THEN UNCHANGED <<cbpc, ev>>
       ELSE /\ cbpc' = [cbpc EXCEPT ![j] = IF is_paused[j] THEN "towait" ELSE "handle"]
            /\ ev' = [ev EXCEPT ![j] = e]
    /\ UNCHANGED <<mgrVars, jobVars, fresh, obsVars, now, libVars, gui, errVars>>

\* str(e) of the TypeError "with QMutex(self._mutex)" raises.
QMutexError == Str("QMutex(): too many arguments")

\* progress_data.get("error", "Unknown download error") of an "error" event:
\* the message the executor reports.
EventError == Str("timeout")

\* Lines 213-214. If "with QMutex" raises, line 228 catches the TypeError and
\* calls _handle_error. Otherwise wait() is called with the job's mutex, which
\* the caller has not locked: Qt leaves that undefined, and the context
\* either blocks on the wait condition or returns at once.
CbWait(j) ==
    /\ cbpc[j] = "towait"
    /\ \E w \in WithQMutex, blocks \in BOOLEAN :
          IF w = "raises"
          THEN /\ cbpc' = [cbpc EXCEPT ![j] = "idle"]
               /\ ev' = [ev EXCEPT ![j] = "none"]
               /\ HandleError(j, "progress",
                              Str("Progress callback error: ") \o QMutexError)
          ELSE /\ cbpc' = [cbpc EXCEPT ![j] = IF blocks THEN "waiting" ELSE "woken"]
               /\ UNCHANGED <<ev, status, terminal_events, samples, errVars>>
    /\ UNCHANGED <<mgrVars, tpc, download_id, is_paused, is_cancelled, fresh,
                   events, start_order, now, libVars, gui>>

\* Lines 215-216: released by wakeAll, the context tests the cancel flag.
CbWoken(j) ==
    /\ cbpc[j] = "woken"
    /\ IF is_cancelled[j]
       THEN /\ cbpc' = [cbpc EXCEPT ![j] = "idle"]
            /\ ev' = [ev EXCEPT ![j] = "none"]
       ELSE /\ cbpc' = [cbpc EXCEPT ![j] = "handle"]
            /\ UNCHANGED ev
    /\ UNCHANGED <<mgrVars, jobVars, fresh, events, obsVars, now, libVars, gui, errVars>>

\* Lines 218-229: the handlers. "downloading" replaces _current_progress by
\* a sample of status DOWNLOADING (lines 243-253); "finished" emits the
\* current sample (lines 262-264); "error" raises DownloadNetworkError, which
\* line 228 catches as an Exception and hands to _handle_error("progress",
\* f"Progress callback error: {e}"), skipping line 226.
CbHandle(j) ==
    /\ cbpc[j] = "handle"
    /\ cbpc' = [cbpc EXCEPT ![j] = "idle"]
    /\ ev' = [ev EXCEPT ![j] = "none"]
    /\ CASE ev[j] = "downloading" ->
              /\ status' = [status EXCEPT ![j] = DOWNLOADING]
              /\ error_message' = [error_message EXCEPT ![j] = <<>>]
              /\ samples' = [samples EXCEPT ![j] = @ + 1]
              /\ fresh' = [fresh EXCEPT ![j] = TRUE]
              /\ UNCHANGED <<terminal_events, error_type>>
         [] ev[j] = "finished" ->
              /\ samples' = [samples EXCEPT ![j] = @ + 1]
              /\ fresh' = [fresh EXCEPT ![j] = TRUE]
              /\ UNCHANGED <<status, terminal_events, errVars>>
         [] OTHER ->
              /\ HandleError(j, "progress",
                             Str("Progress callback error: ") \o EventError)
              /\ UNCHANGED fresh
    /\ UNCHANGED <<mgrVars, tpc, download_id, is_paused, is_cancelled, events,
                   start_order, now, libVars, gui>>

\* _update_interval (0.5 s) passes since _last_update_time.
IntervalElapses(j) ==
    /\ fresh[j]
    /\ fresh' = [fresh EXCEPT ![j] = FALSE]
    /\ UNCHANGED <<mgrVars, jobVars, cbpc, ev, events, obsVars, now, libVars, gui, errVars>>

\* ==================================================== DownloadManager
\* The manager mutex is held from PassBegin to PassEnd.
MutexFree == mpc # "pass"

\* The next DownloadThread object to be constructed.
NewJob == CHOOSE j \in Jobs \ Created : \A k \in Jobs \ Created : j <= k

\* QThread.start() of the manager: nothing happens if the thread still runs.
StartManager == IF mpc = "stopped" THEN "loop" ELSE mpc

\* download_id of a job constructed when the clock shows t (line 65). The
\* "dl_" prefix is the same for every job.
NewDownloadId(t) == t

\* An add_download that puts the new job at the head of the queue,
\* insert(0, ...) instead of append: the one C27_AddAppendsPendingJob has to
\* tell from the add_download of the code.
AddDownloadFront(same_second) ==
    /\ gui = <<"idle">>
    /\ mpc # "pass"
    /\ Created # Jobs
    /\ now' = IF same_second \/ Created = {} THEN now ELSE now + 1
    /\ LET j == CHOOSE j \in Jobs \ Created : \A k \in Jobs \ Created : j <= k IN
         /\ tpc' = [tpc EXCEPT ![j] = "new"]
         /\ download_id' = [download_id EXCEPT ![j] = now']
         /\ download_queue' = <<j>> \o download_queue
    /\ is_running' = TRUE
    /\ mpc' = IF is_running THEN mpc ELSE IF mpc = "stopped" THEN "loop" ELSE mpc
    /\ UNCHANGED <<max_concurrent_downloads, active_downloads, completed_downloads,
                   slots, hand, status, is_paused, is_cancelled, cbVars,
                   obsVars, gui, errVars, libVars>>

\* add_download, called in the same clock second as the previous
\* construction or in the next one.
AddDownload(same_second) ==
    /\ gui = <<"idle">>
    /\ MutexFree
    /\ Created # Jobs
    /\ now' = IF same_second \/ Created = {} THEN now ELSE now + 1
    /\ LET j == NewJob IN
         /\ tpc' = [tpc EXCEPT ![j] = "new"]
         /\ download_id' = [download_id EXCEPT ![j] = NewDownloadId(now')]
         /\ download_queue' = Append(download_queue, j)
    /\ is_running' = TRUE
    /\ mpc' = IF is_running THEN mpc ELSE StartManager
    /\ UNCHANGED <<max_concurrent_downloads, active_downloads, completed_downloads,
                   slots, hand, status, is_paused, is_cancelled, cbVars,
                   obsVars, gui, errVars, libVars>>

\* Index of the first queued job with this id (0: none), lines 375-376.
QueueIndex(id) ==
    LET hits == {i \in DOMAIN download_queue : download_id[download_queue[i]] = id}
    IN IF hits = {} THEN 0 ELSE CHOOSE i \in hits : \A k \in hits : i <= k

\* remove_download(id), called with the id add_download returned for job j.
\* A TypeError of line 367, or of cancel line 156, leaves everything as it was.
RemoveDownload(j) ==
    /\ gui = <<"idle">>
    /\ j \in Created
    /\ \E w \in WithQMutex :
         LET id == download_id[j] IN
         IF w = "raises"
         THEN UNCHANGED <<download_queue, is_cancelled, cbpc>>
         ELSE IF active_downloads[id] # NoJob
         THEN /\ Cancel({active_downloads[id]})
              /\ UNCHANGED download_queue
         ELSE /\ download_queue' = IF QueueIndex(id) = 0 THEN download_queue
                                   ELSE ListPop(download_queue, QueueIndex(id))
              /\ UNCHANGED <<is_cancelled, cbpc>>
    /\ UNCHANGED <<max_concurrent_downloads, active_downloads, completed_downloads,
                   is_running, mpc, slots, hand, tpc, download_id, status, is_paused,
                   ev, fresh, events, obsVars, now, libVars, gui, errVars>>

\* cancel_all, lines 420-422: the loop over the running set. A TypeError of
\* the first cancel() ends cancel_all before the queue is cleared.
CancelAllActive ==
    /\ gui = <<"idle">>
    /\ \E w \in WithQMutex :
         IF w = "raises" /\ Values(active_downloads) # {}
         THEN UNCHANGED <<gui, is_cancelled, cbpc>>
         ELSE /\ gui' = <<"cancel_all">>
              /\ Cancel(Values(active_downloads))
    /\ UNCHANGED <<mgrVars, tpc, download_id, status, is_paused, ev, fresh, events,
                   obsVars, now, libVars, errVars>>

\* cancel_all, lines 425-426: the queue is cleared.
CancelAllClear ==
    /\ gui = <<"cancel_all">>
    /\ gui' = <<"idle">>
    /\ download_queue' = <<>>
    /\ UNCHANGED <<max_concurrent_downloads, active_downloads, completed_downloads,
                   is_running, mpc, slots, hand, jobVars, cbVars, obsVars, now, libVars, errVars>>

\* stop_manager, lines 587-592: _is_running is cleared and the running jobs
\* are cancelled. A TypeError of line 587 ends stop_manager at once; one of
\* the first cancel() ends it with _is_running cleared and the queue as it is.
StopManagerCancel ==
    /\ gui = <<"idle">>
    /\ \E w \in WithQMutex :
         CASE w = "raises" ->
                UNCHANGED <<is_running, gui, is_cancelled, cbpc>>
           [] w = "enters" ->
                /\ is_running' = FALSE
                /\ gui' = <<"stop_manager">>
                /\ Cancel(Values(active_downloads))
    /\ UNCHANGED <<max_concurrent_downloads, active_downloads, download_queue,
                   completed_downloads, mpc, slots, hand, tpc, download_id, status,
                   is_paused, ev, fresh, events, obsVars, now, libVars, errVars>>

\* stop_manager, lines 594-602: the queue is cleared; wait(5000) then returns
\* when the manager thread has finished or the 5 seconds are over.
StopManagerClear ==
    /\ gui = <<"stop_manager">>
    /\ gui' = <<"idle">>
    /\ download_queue' = <<>>
    /\ UNCHANGED <<max_concurrent_downloads, active_downloads, completed_downloads,
                   is_running, mpc, slots, hand, jobVars, cbVars, obsVars, now, libVars, errVars>>

\* What pause_download(id) and resume_download(id) return when they return
\* (lines 385-388, 392-395): whether the id is a key of the running set.
PauseDownloadReturn(id) == active_downloads[id] # NoJob
ResumeDownloadReturn(id) == active_downloads[id] # NoJob

\* pause_download(id), lines 385-386 and pause line 140: the job is looked
\* up and its status tested.
PauseDownload(id) ==
    /\ gui = <<"idle">>
    /\ active_downloads[id] # NoJob
    /\ samples[active_downloads[id]] < MaxSamples
    /\ \E w \in WithQMutex :
         IF w = "raises"
         THEN UNCHANGED gui
         ELSE /\ PauseTest(active_downloads[id])
              /\ gui' = <<"pause", active_downloads[id]>>
    /\ UNCHANGED <<mgrVars, jobVars, cbVars, obsVars, now, libVars, errVars>>

\* pause, lines 141-143, for the job whose status was tested.
PauseFinish ==
    /\ gui[1] = "pause"
    /\ PauseSet(gui[2])
    /\ gui' = <<"idle">>
    /\ UNCHANGED <<mgrVars, tpc, download_id, is_cancelled, cbVars,
                   terminal_events, start_order, now, libVars, errVars>>

\* resume_download(id), lines 392-393 and resume line 148.
ResumeDownload(id) ==
    /\ gui = <<"idle">>
    /\ active_downloads[id] # NoJob
    /\ \E w \in WithQMutex :
         IF w = "raises"
         THEN UNCHANGED gui
         ELSE /\ ResumeTest(active_downloads[id])
              /\ gui' = <<"resume", active_downloads[id]>>
    /\ UNCHANGED <<mgrVars, jobVars, cbVars, obsVars, now, libVars, errVars>>

\* resume, lines 149-152, for the job whose status was tested.
ResumeFinish ==
    /\ gui[1] = "resume"
    /\ ResumeSet(gui[2])
    /\ gui' = <<"idle">>
    /\ UNCHANGED <<mgrVars, tpc, download_id, is_cancelled, ev, fresh, events,
                   terminal_events, start_order, now, libVars, errVars>>

\* pause_all and resume_all iterate over _active_downloads.values() with no
\* lock. The GUI thread is at <<name, size, visited, count>> between two
\* iterations and at <<name, size, visited, count, job>> inside pause() or
\* resume(): size is the length of the dict when the loop began, visited the
\* keys the iterator has passed, count the local counter.

\* The key a dict iterator yields next: keys are inserted in the order the
\* jobs are started, which is the order of their ids.
NextKey(visited) ==
    LET rest == Keys(active_downloads) \ visited
    IN CHOOSE i \in rest : \A k \in rest : i <= k

\* pause_all, lines 399-400: the counter and the iterator are set up.
PauseAllBegin ==
    /\ gui = <<"idle">>
    /\ \A j \in Values(active_downloads) : samples[j] < MaxSamples
    /\ gui' = <<"pause_all", DictLen(active_downloads), {}, 0>>
    /\ UNCHANGED <<mgrVars, jobVars, cbVars, obsVars, now, libVars, errVars>>

\* pause_all, lines 400-401 and 404: the iterator raises RuntimeError if the
\* dict changed size, the loop ends and the counter is returned if no key is
\* left, and else the status of the next job is tested.
PauseAllIter ==
    /\ gui[1] = "pause_all"
    /\ IF DictLen(active_downloads) # gui[2] \/ Keys(active_downloads) \ gui[3] = {}
       THEN gui' = <<"idle">>
       ELSE LET id == NextKey(gui[3]) IN
            IF status[active_downloads[id]] = DOWNLOADING
            THEN gui' = <<"pause_all_call", gui[2], gui[3] \cup {id}, gui[4],
                          active_downloads[id]>>
            ELSE gui' = <<"pause_all", gui[2], gui[3] \cup {id}, gui[4]>>
    /\ UNCHANGED <<mgrVars, jobVars, cbVars, obsVars, now, libVars, errVars>>

\* pause_all, line 402 with pause lines 139-140: a TypeError ends pause_all;
\* if the status test of pause fails, pause returns and line 403 counts.
PauseAllCall ==
    /\ gui[1] = "pause_all_call"
    /\ \E w \in WithQMutex :
         IF w = "raises"
         THEN gui' = <<"idle">>
         ELSE IF PauseTest(gui[5])
         THEN gui' = <<"pause_all_set", gui[2], gui[3], gui[4], gui[5]>>
         ELSE gui' = <<"pause_all", gui[2], gui[3], gui[4] + 1>>
    /\ UNCHANGED <<mgrVars, jobVars, cbVars, obsVars, now, libVars, errVars>>

\* pause lines 141-143, then pause_all line 403.
PauseAllSet ==
    /\ gui[1] = "pause_all_set"
    /\ PauseSet(gui[5])
    /\ gui' = <<"pause_all", gui[2], gui[3], gui[4] + 1>>
    /\ UNCHANGED <<mgrVars, tpc, download_id, is_cancelled, cbVars,
                   terminal_events, start_order, now, libVars, errVars>>

\* resume_all, lines 408-409.
ResumeAllBegin ==
    /\ gui = <<"idle">>
    /\ gui' = <<"resume_all", DictLen(active_downloads), {}, 0>>
    /\ UNCHANGED <<mgrVars, jobVars, cbVars, obsVars, now, libVars, errVars>>

\* resume_all, lines 409-410 and 413.
ResumeAllIter ==
    /\ gui[1] = "resume_all"
    /\ IF DictLen(active_downloads) # gui[2] \/ Keys(active_downloads) \ gui[3] = {}
       THEN gui' = <<"idle">>
       ELSE LET id == NextKey(gui[3]) IN
            IF status[active_downloads[id]] = PAUSED
            THEN gui' = <<"resume_all_call", gui[2], gui[3] \cup {id}, gui[4],
                          active_downloads[id]>>
            ELSE gui' = <<"resume_all", gui[2], gui[3] \cup {id}, gui[4]>>
    /\ UNCHANGED <<mgrVars, jobVars, cbVars, obsVars, now, libVars, errVars>>

\* resume_all, line 411 with resume lines 147-148, then line 412.
ResumeAllCall ==
    /\ gui[1] = "resume_all_call"
    /\ \E w \in WithQMutex :
         IF w = "raises"
         THEN gui' = <<"idle">>
         ELSE IF ResumeTest(gui[5])
         THEN gui' = <<"resume_all_set", gui[2], gui[3], gui[4], gui[5]>>
         ELSE gui' = <<"resume_all", gui[2], gui[3], gui[4] + 1>>
    /\ UNCHANGED <<mgrVars, jobVars, cbVars, obsVars, now, libVars, errVars>>

\* resume lines 149-152, then resume_all line 412.
ResumeAllSet ==
    /\ gui[1] = "resume_all_set"
    /\ ResumeSet(gui[5])
    /\ gui' = <<"resume_all", gui[2], gui[3], gui[4] + 1>>
    /\ UNCHANGED <<mgrVars, tpc, download_id, is_cancelled, ev, fresh, events,
                   terminal_events, start_order, now, libVars, errVars>>

\* ------------------------------------------------- the observers
\* The observers are called on the GUI thread (_emit_queue_stats by the
\* QTimer of line 340) and hold no lock. The GUI thread is at
\* <<"observe", name, value>> when the observer of that name has evaluated
\* what it returns or emits.

\* DownloadThread.get_download_info, lines 164-174: the dict returned, as far
\* as the model has the fields.
GetDownloadInfo(j) == [download_id |-> download_id[j], status |-> status[j]]

\* get_download_by_id(id), lines 433-441: the running set is searched first,
\* then the queue; None is NoJob.
GetDownloadById(id) ==
    IF active_downloads[id] # NoJob THEN active_downloads[id]
    ELSE IF QueueIndex(id) # 0 THEN download_queue[QueueIndex(id)]
    ELSE NoJob

\* get_active_downloads, line 445: list(values()), in the order of the keys.
GetActiveDownloads ==
    LET ids == IdList(Keys(active_downloads))
    IN [i \in DOMAIN ids |-> active_downloads[ids[i]]]

\* get_queued_downloads, line 449: a copy of the list.
GetQueuedDownloads == download_queue

\* get_download_count, lines 453-457.
GetDownloadCount ==
    [active |-> DictLen(active_downloads),
     queued |-> Len(download_queue),
     completed |-> Len(completed_downloads)]

\* _emit_queue_stats, lines 576-582: the dict emitted at line 583.
QueueStats ==
    [active_downloads |-> DictLen(active_downloads),
     queued_downloads |-> Len(download_queue),
     completed_downloads |-> Len(completed_downloads),
     max_concurrent |-> max_concurrent_downloads,
     total_downloads |-> DictLen(active_downloads) + Len(download_queue)
                            + Len(completed_downloads)]

\* The list get_all_downloads_info builds, lines 461-471: the info of the
\* running jobs, then that of the queued jobs with "status" overwritten in
\* the dict get_download_info returned.
AllDownloadsInfo ==
    [i \in DOMAIN GetActiveDownloads |-> GetDownloadInfo(GetActiveDownloads[i])]
    \o [i \in DOMAIN download_queue |->
           [GetDownloadInfo(download_queue[i]) EXCEPT !.status = "queued"]]

\* The observer of this name has evaluated v.
Observe(name, v) ==
    /\ gui = <<"idle">>
    /\ gui' = <<"observe", name, v>>
    /\ UNCHANGED <<mgrVars, jobVars, cbVars, obsVars, now, libVars, errVars>>

\* A get_all_downloads_info that writes "queued" into the queued job instead
\* of the dict: the one C28_ObserversChangeNothing has to tell from the
\* observer of the code.
GetAllDownloadsInfoWrites ==
    /\ gui = <<"idle">>
    /\ gui' = <<"observe", "get_all_downloads_info", AllDownloadsInfo>>
    /\ status' = [j \in Jobs |-> IF j \in Range(download_queue) THEN "queued"
                                  ELSE status[j]]
    /\ UNCHANGED <<mgrVars, tpc, download_id, is_paused, is_cancelled, cbVars,
                   obsVars, now, libVars, errVars>>

\* get_all_downloads_info, lines 459-471.
GetAllDownloadsInfo == Observe("get_all_downloads_info", AllDownloadsInfo)

\* The calls of the observers, up to the evaluation of their value.
ObserverCall ==
    \/ \E id \in Ids : Observe("get_download_by_id", GetDownloadById(id))
    \/ Observe("get_active_downloads", GetActiveDownloads)
    \/ Observe("get_queued_downloads", GetQueuedDownloads)
    \/ Observe("get_download_count", GetDownloadCount)
    \/ GetAllDownloadsInfo
    \/ \E j \in Created : Observe("get_download_info", GetDownloadInfo(j))
    \/ Observe("_emit_queue_stats", QueueStats)

\* The observer returns its value (lines 441, 445, 449, 453, 473, 166) or
\* emits it (line 583).
ObserverReturn ==
    /\ gui[1] = "observe"
    /\ gui' = <<"idle">>
    /\ UNCHANGED <<mgrVars, jobVars, cbVars, obsVars, now, libVars, errVars>>

\* set_max_concurrent_downloads(n): values below 1 are ignored.
SetMaxConcurrentDownloads(n) ==
    /\ gui = <<"idle">>
    /\ max_concurrent_downloads' = IF n > 0 THEN n ELSE max_concurrent_downloads
    /\ UNCHANGED <<active_downloads, download_queue, completed_downloads, is_running,
                   mpc, slots, hand, jobVars, cbVars, obsVars, now, libVars, gui, errVars>>

\* ------------------------------------------------- the manager thread
\* Ids of the running set whose thread is no longer running (lines 515-517).
CompletedIds == {i \in Keys(active_downloads) : ~IsRunning(active_downloads[i])}

\* range(min(available_slots, len(queue))) at lines 524-525.
AvailableSlots(active) ==
    LET n == Min(max_concurrent_downloads - DictLen(active), Len(download_queue))
    IN IF n < 0 THEN 0 ELSE n

\* run line 504 with _is_running true, then _process_download_queue lines
\* 512-525: the mutex is taken, finished jobs are retired and the number of
\* iterations of the dispatch loop is fixed.
PassBegin ==
    /\ mpc = "loop"
    /\ is_running
    /\ mpc' = "pass"
    /\ LET active == [i \in Ids |-> IF i \in CompletedIds THEN NoJob
                                     ELSE active_downloads[i]]
       IN /\ active_downloads' = active
          /\ completed_downloads' = completed_downloads \o IdList(CompletedIds)
          /\ slots' = AvailableSlots(active)
    /\ UNCHANGED <<max_concurrent_downloads, download_queue, is_running, hand,
                   jobVars, cbVars, obsVars, now, libVars, gui, errVars>>

\* A dispatch that reads the head of the queue and leaves it there,
\* [0] instead of pop(0): the one C22_StartedAtMostOnce has to tell from the
\* dispatch of the code.
DispatchPeek ==
    /\ mpc = "pass"
    /\ slots > 0
    /\ hand = NoJob
    /\ IF download_queue # <<>>
       THEN /\ hand' = Head(download_queue)
            /\ UNCHANGED <<download_queue, slots>>
       ELSE /\ slots' = slots - 1
            /\ UNCHANGED <<hand, download_queue>>
    /\ UNCHANGED <<max_concurrent_downloads, active_downloads, completed_downloads,
                   is_running, mpc, jobVars, cbVars, obsVars, now, libVars, gui, errVars>>

\* A dispatch that takes the job submitted last, pop() instead of pop(0):
\* the scheduler C5_FifoDispatch has to tell from the one of the code.
DispatchPopLast ==
    /\ mpc = "pass"
    /\ slots > 0
    /\ hand = NoJob
    /\ IF download_queue # <<>>
       THEN /\ hand' = download_queue[Len(download_queue)]
            /\ download_queue' = SubSeq(download_queue, 1, Len(download_queue) - 1)
            /\ UNCHANGED slots
       ELSE /\ slots' = slots - 1
            /\ UNCHANGED <<hand, download_queue>>
    /\ UNCHANGED <<max_concurrent_downloads, active_downloads, completed_downloads,
                   is_running, mpc, jobVars, cbVars, obsVars, now, libVars, gui, errVars>>

\* Lines 526-527: one iteration pops the head of the queue, if there is one.
DispatchPop ==
    /\ mpc = "pass"
    /\ slots > 0
    /\ hand = NoJob
    /\ IF download_queue # <<>>
       THEN /\ hand' = Head(download_queue)
            /\ download_queue' = Tail(download_queue)
            /\ UNCHANGED slots
       ELSE /\ slots' = slots - 1
            /\ UNCHANGED <<hand, download_queue>>
    /\ UNCHANGED <<max_concurrent_downloads, active_downloads, completed_downloads,
                   is_running, mpc, jobVars, cbVars, obsVars, now, libVars, gui, errVars>>

\* Lines 528-529: the popped job is stored under its id and started.
DispatchStart ==
    /\ mpc = "pass"
    /\ hand # NoJob
    /\ active_downloads' = [active_downloads EXCEPT ![download_id[hand]] = hand]
    /\ tpc' = [tpc EXCEPT ![hand] = IF @ = "new" THEN "start" ELSE @]
    /\ start_order' = Append(start_order, hand)
    /\ slots' = slots - 1
    /\ hand' = NoJob
    /\ UNCHANGED <<max_concurrent_downloads, download_queue, completed_downloads,
                   is_running, mpc, download_id, status, is_paused, is_cancelled,
                   cbVars, terminal_events, samples, now, libVars, gui, errVars>>

\* Lines 528-529 when the thread cannot be created (resource exhaustion):
\* QThread.start() logs a warning and returns, nothing is raised, and the
\* thread never runs. No statement of the pass handles the failure.
DispatchStartFails ==
    /\ mpc = "pass"
    /\ hand # NoJob
    /\ active_downloads' = [active_downloads EXCEPT ![download_id[hand]] = hand]
    /\ start_order' = Append(start_order, hand)
    /\ slots' = slots - 1
    /\ hand' = NoJob
    /\ UNCHANGED <<max_concurrent_downloads, download_queue, completed_downloads,
                   is_running, mpc, jobVars, cbVars, terminal_events, samples,
                   now, libVars, gui, errVars>>

\* Lines 531-537; the mutex is released and run goes back to line 504 after
\* msleep(1000).
PassEnd ==
    /\ mpc = "pass"
    /\ slots = 0
    /\ hand = NoJob
    /\ mpc' = "loop"
    /\ is_running' = IF Keys(active_downloads) = {} /\ download_queue = <<>>
                      THEN FALSE ELSE is_running
    /\ UNCHANGED <<max_concurrent_downloads, active_downloads, download_queue,
                   completed_downloads, slots, hand, jobVars, cbVars, obsVars,
                   now, libVars, gui, errVars>>

\* run line 504 with _is_running false: the loop is left.
ManagerLeave ==
    /\ mpc = "loop"
    /\ ~is_running
    /\ mpc' = "exit"
    /\ UNCHANGED <<max_concurrent_downloads, active_downloads, download_queue,
                   completed_downloads, is_running, slots, hand, jobVars, cbVars,
                   obsVars, now, libVars, gui, errVars>>

\* run line 508 and the end of the manager thread.
ManagerFinish ==
    /\ mpc = "exit"
    /\ mpc' = "stopped"
    /\ UNCHANGED <<max_concurrent_downloads, active_downloads, download_queue,
                   completed_downloads, is_running, slots, hand, jobVars, cbVars,
                   obsVars, now, libVars, gui, errVars>>

\* ===================================================== specifications
\* The steps of the manager thread.
ManagerStep ==
    \/ PassBegin
    \/ DispatchPop
    \/ DispatchStart
    \/ PassEnd
    \/ ManagerLeave
    \/ ManagerFinish

\* The steps of the job threads outside the progress hook.
ThreadStepOn(inputs) ==
    \/ \E j \in Jobs : RunBegin(j)
    \/ \E j \in Jobs, input \in inputs : Validate(j, input)
    \/ \E j \in Jobs : ExecReturn(j)

ThreadStep == ThreadStepOn(JobInputs)

\* The jobs of Spec are constructed with a valid URL and output path: they
\* fail when the executor returns, and how a job fails makes no difference
\* to the manager.
SchedulerInputs == {"valid"}

\* The calls of the GUI thread that act on one job.
JobCall ==
    \/ \E id \in Ids : PauseDownload(id)
    \/ PauseFinish
    \/ \E id \in Ids : ResumeDownload(id)
    \/ ResumeFinish
    \/ \E j \in Jobs : RemoveDownload(j)

\* The calls of the progress hook by the executor.
HookStep ==
    \/ \E j \in Jobs, e \in EventStatus : CbEnter(j, e)
    \/ \E j \in Jobs : CbWait(j)
    \/ \E j \in Jobs : CbWoken(j)
    \/ \E j \in Jobs : CbHandle(j)
    \/ \E j \in Jobs : IntervalElapses(j)

\* Spec, the scheduler: the calls of the GUI thread that change the queue,
\* the running set or the bound, the manager thread, and the job threads of
\* the program as it is composed. Downloader.download replaces the
\* "progress_hooks" entry run stored at line 98 by its own hook
\* (downloader.py lines 86-87), so the executor never calls
\* _progress_callback here. pause and resume change nothing the manager
\* thread reads (isRunning, the ids) and are left to SpecJob.
Next ==
    \/ \E same_second \in BOOLEAN : AddDownload(same_second)
    \/ \E j \in Jobs : RemoveDownload(j)
    \/ CancelAllActive
    \/ CancelAllClear
    \/ \E n \in 0..MaxConc : SetMaxConcurrentDownloads(n)
    \/ ManagerStep
    \/ ThreadStepOn(SchedulerInputs)

Spec == Init /\ [][Next]_vars

\* DownloadManager.__init__(max_concurrent_downloads), lines 328-337: the
\* value is stored as it is given. main_window.py line 768 reads it from the
\* stored settings, an int of any sign.
InitAnyBound ==
    /\ max_concurrent_downloads \in 0..MaxConc
    /\ active_downloads = EmptyDict
    /\ download_queue = <<>>
    /\ completed_downloads = <<>>
    /\ is_running = FALSE
    /\ mpc = "stopped"
    /\ slots = 0
    /\ hand = NoJob
    /\ tpc = [j \in Jobs |-> "none"]
    /\ download_id = [j \in Jobs |-> 0]
    /\ status = [j \in Jobs |-> PENDING]
    /\ is_paused = [j \in Jobs |-> FALSE]
    /\ is_cancelled = [j \in Jobs |-> FALSE]
    /\ error_message = [j \in Jobs |-> <<>>]
    /\ error_type = [j \in Jobs |-> "none"]
    /\ cbpc = [j \in Jobs |-> "idle"]
    /\ ev = [j \in Jobs |-> "none"]
    /\ fresh = [j \in Jobs |-> FALSE]
    /\ events = [j \in Jobs |-> 0]
    /\ terminal_events = [j \in Jobs |-> 0]
    /\ samples = [j \in Jobs |-> 0]
    /\ start_order = <<>>
    /\ now = 0
    /\ gui = <<"idle">>
    /\ LibInit

\* SpecAnyBound, the scheduler of Spec built with any constructor value.
SpecAnyBound == InitAnyBound /\ [][Next]_vars

\* SpecStartFails, the scheduler on a machine where the start of a job's
\* thread can fail.
NextStartFails ==
    \/ \E same_second \in BOOLEAN : AddDownload(same_second)
    \/ ManagerStep
    \/ DispatchStartFails
    \/ ThreadStepOn(SchedulerInputs)

SpecStartFails == Init /\ [][NextStartFails]_vars

\* SpecStop, the scheduler under a bound that is not changed after
\* construction, with stop_manager among the calls of the GUI thread.
NextStop ==
    \/ \E same_second \in BOOLEAN : AddDownload(same_second)
    \/ \E j \in Jobs : RemoveDownload(j)
    \/ CancelAllActive
    \/ CancelAllClear
    \/ StopManagerCancel
    \/ StopManagerClear
    \/ ManagerStep
    \/ ThreadStepOn(SchedulerInputs)

SpecStop == Init /\ [][NextStop]_vars

\* The calls of the GUI thread that act on every job of the running set.
BulkCall ==
    \/ PauseAllBegin
    \/ PauseAllIter
    \/ PauseAllCall
    \/ PauseAllSet
    \/ ResumeAllBegin
    \/ ResumeAllIter
    \/ ResumeAllCall
    \/ ResumeAllSet

\* The state two calls of add_download in two different seconds leave on a
\* new manager.
InitAll ==
    /\ max_concurrent_downloads \in 1..MaxConc
    /\ active_downloads = EmptyDict
    /\ download_queue = <<1, 2>>
    /\ completed_downloads = <<>>
    /\ is_running = TRUE
    /\ mpc = "loop"
    /\ slots = 0
    /\ hand = NoJob
    /\ tpc = [j \in Jobs |-> IF j \in {1, 2} THEN "new" ELSE "none"]
    /\ download_id = [j \in Jobs |-> IF j = 2 THEN 1 ELSE 0]
    /\ status = [j \in Jobs |-> PENDING]
    /\ is_paused = [j \in Jobs |-> FALSE]
    /\ is_cancelled = [j \in Jobs |-> FALSE]
    /\ error_message = [j \in Jobs |-> <<>>]
    /\ error_type = [j \in Jobs |-> "none"]
    /\ cbpc = [j \in Jobs |-> "idle"]
    /\ ev = [j \in Jobs |-> "none"]
    /\ fresh = [j \in Jobs |-> FALSE]
    /\ events = [j \in Jobs |-> 0]
    /\ terminal_events = [j \in Jobs |-> 0]
    /\ samples = [j \in Jobs |-> 0]
    /\ start_order = <<>>
    /\ now = 1
    /\ gui = <<"idle">>
    /\ LibInit

\* SpecAll, two jobs of the program as it is composed, from their submission
\* on: the manager thread, the jobs' threads, pause_all, resume_all and the
\* observers.
NextAll ==
    \/ ManagerStep
    \/ ThreadStepOn(SchedulerInputs)
    \/ BulkCall
    \/ ObserverCall
    \/ ObserverReturn

SpecAll == InitAll /\ [][NextAll]_vars

\* A manager that is constructed with the default bound (line 328) and never
\* called: the state of the scheduler in the specifications of the other
\* objects.
SchedulerIdle ==
    /\ max_concurrent_downloads = 3
    /\ active_downloads = EmptyDict
    /\ download_queue = <<>>
    /\ completed_downloads = <<>>
    /\ is_running = FALSE
    /\ mpc = "stopped"
    /\ slots = 0
    /\ hand = NoJob
    /\ tpc = [j \in Jobs |-> "none"]
    /\ download_id = [j \in Jobs |-> 0]
    /\ status = [j \in Jobs |-> PENDING]
    /\ is_paused = [j \in Jobs |-> FALSE]
    /\ is_cancelled = [j \in Jobs |-> FALSE]
    /\ error_message = [j \in Jobs |-> <<>>]
    /\ error_type = [j \in Jobs |-> "none"]
    /\ cbpc = [j \in Jobs |-> "idle"]
    /\ ev = [j \in Jobs |-> "none"]
    /\ fresh = [j \in Jobs |-> FALSE]
    /\ events = [j \in Jobs |-> 0]
    /\ terminal_events = [j \in Jobs |-> 0]
    /\ samples = [j \in Jobs |-> 0]
    /\ start_order = <<>>
    /\ now = 0
    /\ gui = <<"idle">>

\* ------------------------------------------------- Downloader.download
\* The message DownloadProgressHook hands to the callback for an event,
\* lines 17-43.
HookMessage(event_status, data) ==
    CASE event_status = "downloading" /\ data = "total" -> "Downloading: %"
      [] event_status = "downloading" /\ data = "no_total" -> "Downloading... (MB)"
      [] event_status = "downloading" -> "Progress hook error: "
      [] event_status = "finished" -> "Downloaded: "
      [] OTHER -> "Error: "

\* The message of the except clauses, lines 101 and 108.
ErrorMessage(outcome) ==
    IF outcome = "DownloadError" THEN "Download error: " ELSE "Unexpected error: "
ErrorMessages == {ErrorMessage(o) : o \in {"DownloadError", "Exception"}}

\* Lines 71-73: download is called; an empty or non-str url is logged and
\* False is returned at once, the callback is not called.
DownloadBegin(url, cb) ==
    /\ dl.phase # "running"
    /\ dl' = IF url # "valid"
             THEN [phase |-> "returned", cb |-> cb, msgs |-> <<>>,
                   log |-> "Invalid URL provided for download.", value |-> FALSE]
             ELSE [phase |-> "running", cb |-> cb, msgs |-> <<>>,
                   log |-> "yt-dlp options: ", value |-> FALSE]
    /\ UNCHANGED <<schedVars, current_progress, blocker, recent>>

\* yt-dlp calls the DownloadProgressHook of line 87, which exists if a
\* callback was given. A callback that raises does so again in the except
\* clause of the hook (line 43); the exception leaves yt-dlp, is caught at
\* line 107, and the callback raises once more at line 111, outside any try.
ProgressHook(event_status, data) ==
    /\ dl.phase = "running"
    /\ dl.cb # "none"
    /\ Len(dl.msgs) < MaxEvents
    /\ dl' = IF dl.cb = "raises"
             THEN [dl EXCEPT !.phase = "raised", !.log = ErrorMessage("Exception")]
             ELSE [dl EXCEPT !.msgs = Append(@, HookMessage(event_status, data))]
    /\ UNCHANGED <<schedVars, current_progress, blocker, recent>>

\* Lines 97-112: the try statement ends. An except clause calls the callback,
\* if there is one, with the message and returns False.
DownloadEnd(outcome) ==
    /\ dl.phase = "running"
    /\ dl' = IF outcome = "completes"
             THEN [dl EXCEPT !.phase = "returned", !.value = TRUE,
                             !.log = "Download completed successfully: "]
             ELSE IF dl.cb = "none"
             THEN [dl EXCEPT !.phase = "returned", !.value = FALSE,
                             !.log = ErrorMessage(outcome)]
             ELSE IF dl.cb = "raises"
             THEN [dl EXCEPT !.phase = "raised", !.log = ErrorMessage(outcome)]
             ELSE [dl EXCEPT !.phase = "returned", !.value = FALSE,
                             !.log = ErrorMessage(outcome),
                             !.msgs = Append(@, ErrorMessage(outcome))]
    /\ UNCHANGED <<schedVars, current_progress, blocker, recent>>

\* SpecDownloader, the calls of Downloader.download one after the other.
InitDownloader ==
    /\ SchedulerIdle
    /\ current_progress = NewProgress
    /\ dl = NoCall
    /\ blocker = NewBlocker
    /\ recent = NewRecent

\* The url is a non-empty str, the empty str or no str (line 71); the
\* callback is None, a callable that returns or one that raises (both callers
\* of this repository pass one that returns, threads.py line 266 and
\* Ui/threads.py line 22); the numbers of an event have a total, have none, or
\* are values the arithmetic of lines 22-29 raises on; the try statement of
\* lines 76-98 reaches line 98, or yt-dlp raises DownloadError, or anything
\* else raises an Exception.
NextDownloader ==
    \/ \E url \in {"valid", "empty", "not_str"}, cb \in {"none", "returns", "raises"} :
          DownloadBegin(url, cb)
    \/ \E e \in EventStatus, data \in {"total", "no_total", "malformed"} :
          ProgressHook(e, data)
    \/ \E outcome \in {"completes", "DownloadError", "Exception"} : DownloadEnd(outcome)

SpecDownloader == InitDownloader /\ [][NextDownloader]_vars

\* ------------------------------------------------------ ContentBlocker
\* domain.startswith("www.") and domain[4:], lines 248-249.
StripWww(domain) ==
    IF Len(domain.labels) > 1 /\ domain.labels[1] = "www"
    THEN Name(Tail(domain.labels), domain.port)
    ELSE domain

\* domain.endswith(f".{suffix}"), lines 294 and 378.
EndsWithDot(domain, suffix) ==
    /\ domain.port = suffix.port
    /\ Len(domain.labels) > Len(suffix.labels)
    /\ SubSeq(domain.labels, Len(domain.labels) - Len(suffix.labels) + 1,
              Len(domain.labels)) = suffix.labels

\* A URL, stripped and lowercased as line 216 leaves it: the netloc urlparse
\* finds in it (host, with the port if the URL has one) and the words of the
\* rest of the URL. The empty URL has neither.
EmptyUrl == [netloc |-> Name(<<>>, ""), words |-> {}]
BlockerUrls ==
    {EmptyUrl,
     [netloc |-> Name(<<"site", "com">>, ""), words |-> {"mature"}],
     [netloc |-> Name(<<"www", "site", "com">>, ""), words |-> {"adult"}],
     [netloc |-> Name(<<"cdn", "site", "com">>, ""), words |-> {"xxx"}],
     [netloc |-> Name(<<"site", "com">>, ":8080"), words |-> {"adult"}],
     [netloc |-> Name(<<"tube", "com">>, ""), words |-> {}]}

\* _is_whitelisted(domain, url), lines 373-381.
IsWhitelisted(domain) ==
    \/ domain \in blocker.whitelist
    \/ \E w \in blocker.whitelist : EndsWithDot(domain, w)

\* _check_domain_rules(domain), lines 289-302.
CheckDomainRules(domain) ==
    \E d \in RuleDomains :
        /\ blocker.domain_rules[d] = "enabled"
        /\ domain = d \/ EndsWithDot(domain, d)

\* _check_keyword_rules(url), lines 306-325: the keyword is searched as a
\* whole word in the URL, the host included.
CheckKeywordRules(url) ==
    \E k \in Keywords :
        /\ blocker.keyword_rules[k] = "enabled"
        /\ k \in url.words \cup Range(url.netloc.labels)

\* _check_pattern_rules(url), lines 329-341: a pattern is named by the word
\* it matches.
CheckPatternRules(url) ==
    \E p \in Patterns :
        /\ blocker.pattern_rules[p] = "enabled"
        /\ p \in url.words \cup Range(url.netloc.labels)

\* _check_custom_rules(url, parsed), lines 346-368: an "adult" query
\* parameter or one of the age indicators.
CheckCustomRules(url) ==
    url.words \cap {"adult=", "18+", "mature", "restricted", "age_gate"} # {}

\* _perform_blocking_check(url).is_blocked, lines 244-278.
PerformBlockingCheck(url) ==
    LET domain == StripWww(url.netloc) IN
    IF IsWhitelisted(domain) THEN FALSE
    ELSE \/ CheckDomainRules(domain)
         \/ CheckKeywordRules(url)
         \/ CheckPatternRules(url)
         \/ CheckCustomRules(url)

\* _cache_result(url, result), lines 557-571, on _block_cache with
\* _cache_timestamps, the entries oldest first: a full cache loses its oldest
\* entries, then the result is stored with the current time.
CacheResult(cache, url, result) ==
    LET kept == IF Len(cache) >= CacheMaxSize
                THEN SubSeq(cache, Min(EvictBatch, Len(cache)) + 1, Len(cache))
                ELSE cache
    IN Append(kept, [url |-> url, is_blocked |-> result])

\* A whitelist addition that leaves the cache as it is: the one
\* C38_CacheNeverStale has to tell from the add_to_whitelist of the code.
AddToWhitelistKeepsCache(domain) ==
    /\ blocker' = [blocker EXCEPT !.whitelist = @ \cup {domain}]
    /\ UNCHANGED <<schedVars, current_progress, dl, recent>>

\* is_blocked(url), lines 212-239. expired: the cached entry is older than
\* _cache_ttl (line 550).
IsBlocked(url, expired) ==
    /\ IF url = EmptyUrl
       THEN blocker' = [blocker EXCEPT !.returned =
                           [is_blocked |-> FALSE, cache_hit |-> FALSE]]
       ELSE IF ~expired /\ \E i \in DOMAIN blocker.cache : blocker.cache[i].url = url
       THEN LET i == CHOOSE i \in DOMAIN blocker.cache : blocker.cache[i].url = url
            IN blocker' = [blocker EXCEPT !.returned =
                              [is_blocked |-> blocker.cache[i].is_blocked,
                               cache_hit |-> TRUE]]
       ELSE LET live == SelectSeq(blocker.cache, LAMBDA e : e.url # url)
                result == PerformBlockingCheck(url)
            IN blocker' = [blocker EXCEPT
                              !.cache = CacheResult(live, url, result),
                              !.returned = [is_blocked |-> result, cache_hit |-> FALSE]]
    /\ UNCHANGED <<schedVars, current_progress, dl, recent>>

\* add_domain_rule(domain), lines 385-397.
AddDomainRule(domain) ==
    /\ blocker' = IF blocker.domain_rules[domain] = "absent"
                  THEN [blocker EXCEPT !.domain_rules[domain] = "enabled",
                                       !.cache = <<>>]
                  ELSE blocker
    /\ UNCHANGED <<schedVars, current_progress, dl, recent>>

\* add_keyword_rule(keyword), lines 403-419.
AddKeywordRule(keyword) ==
    /\ blocker' = IF blocker.keyword_rules[keyword] = "absent"
                  THEN [blocker EXCEPT !.keyword_rules[keyword] = "enabled",
                                       !.cache = <<>>]
                  ELSE blocker
    /\ UNCHANGED <<schedVars, current_progress, dl, recent>>

\* add_pattern_rule(pattern), lines 423-440, for a pattern that compiles.
AddPatternRule(pattern) ==
    /\ blocker' = IF blocker.pattern_rules[pattern] = "absent"
                  THEN [blocker EXCEPT !.pattern_rules[pattern] = "enabled",
                                       !.cache = <<>>]
                  ELSE blocker
    /\ UNCHANGED <<schedVars, current_progress, dl, recent>>

\* The rule dict remove_rule and toggle_rule look into for a rule type.
RuleDict(rule_type) ==
    CASE rule_type = "domain" -> "domain_rules"
      [] rule_type = "keyword" -> "keyword_rules"
      [] rule_type = "pattern" -> "pattern_rules"

\* remove_rule(rule_type, value), lines 444-462.
RemoveRule(rule_type, value) ==
    /\ blocker' = IF blocker[RuleDict(rule_type)][value] # "absent"
                  THEN [blocker EXCEPT ![RuleDict(rule_type)][value] = "absent",
                                       !.cache = <<>>]
                  ELSE blocker
    /\ UNCHANGED <<schedVars, current_progress, dl, recent>>

\* toggle_rule(rule_type, value), lines 488-502.
ToggleRule(rule_type, value) ==
    /\ blocker' = IF blocker[RuleDict(rule_type)][value] # "absent"
                  THEN [blocker EXCEPT
                           ![RuleDict(rule_type)][value] =
                               IF @ = "enabled" THEN "disabled" ELSE "enabled",
                           !.cache = <<>>]
                  ELSE blocker
    /\ UNCHANGED <<schedVars, current_progress, dl, recent>>

\* add_to_whitelist(domain), lines 466-472.
AddToWhitelist(domain) ==
    /\ blocker' = [blocker EXCEPT !.whitelist = @ \cup {domain},
                                  !.cache = <<>>]
    /\ UNCHANGED <<schedVars, current_progress, dl, recent>>

\* remove_from_whitelist(domain), lines 476-484.
RemoveFromWhitelist(domain) ==
    /\ blocker' = IF domain \in blocker.whitelist
                  THEN [blocker EXCEPT !.whitelist = @ \ {domain},
                                       !.cache = <<>>]
                  ELSE blocker
    /\ UNCHANGED <<schedVars, current_progress, dl, recent>>

\* SpecBlocker, a ContentBlocker and the calls of its public methods.
InitBlocker ==
    /\ SchedulerIdle
    /\ current_progress = NewProgress
    /\ dl = NoCall
    /\ blocker = NewBlocker
    /\ recent = NewRecent

NextBlocker ==
    \/ \E url \in BlockerUrls, expired \in BOOLEAN : IsBlocked(url, expired)
    \/ \E d \in RuleDomains : AddDomainRule(d)
    \/ \E k \in Keywords : AddKeywordRule(k)
    \/ \E p \in Patterns : AddPatternRule(p)
    \/ \E rule_type \in {"domain", "keyword", "pattern"} :
          \E value \in DOMAIN blocker[RuleDict(rule_type)] : RemoveRule(rule_type, value)
    \/ \E rule_type \in {"domain", "keyword", "pattern"} :
          \E value \in DOMAIN blocker[RuleDict(rule_type)] : ToggleRule(rule_type, value)
    \/ \E d \in RuleDomains : AddToWhitelist(d)
    \/ \E d \in RuleDomains : RemoveFromWhitelist(d)

SpecBlocker == InitBlocker /\ [][NextBlocker]_vars

\* ------------------------------------------- RecentManager, RecentFoldersManager
\* The paths callers pass: "/d/./a" names the file "/d/a".
RecentPaths == RecentFiles \cup {"/d/./a"}

\* str(Path(file_path).resolve()), lines 194, 240 and 425.
Resolve(path) == IF path = "/d/./a" THEN "/d/a" ELSE path

\* load(), lines 148-175: the stored items whose file still exists; when some
\* were dropped the shorter list is saved, which every caller below does again.
Load == SelectSeq(recent.stored, LAMBDA item : item.file_path \in recent.files)

\* An insertion that puts the new entry last: the one C40_RecentListKept has
\* to tell from the insertion of the code.
InsertLast(items, item, max_items) ==
    SubSeq(Append(items, item), 1, Min(max_items, Len(items) + 1))

\* items.insert(0, new_item) and items[:max_items], lines 216-219 and
\* 428-429, for max_items > 0.
InsertFirst(items, item, max_items) ==
    SubSeq(<<item>> \o items, 1, Min(max_items, Len(items) + 1))

\* RecentManager.add(file_path), lines 189-226.
RecentAdd(path) ==
    LET file_path == Resolve(path)
        others == SelectSeq(Load, LAMBDA item : item.file_path # file_path)
        new_item == [file_path |-> file_path, download_time |-> recent.clock + 1]
    IN
    /\ recent.clock < MaxAdds
    /\ recent' = IF file_path \notin recent.files
                 THEN recent
                 ELSE [recent EXCEPT
                          !.stored = InsertFirst(others, new_item, recent.max_items),
                          !.clock = @ + 1]
    /\ UNCHANGED <<schedVars, current_progress, dl, blocker>>

\* RecentManager.remove(file_path), lines 236-255.
RecentRemove(path) ==
    /\ recent' = [recent EXCEPT !.stored =
                     SelectSeq(Load, LAMBDA item : item.file_path # Resolve(path))]
    /\ UNCHANGED <<schedVars, current_progress, dl, blocker>>

\* RecentManager.clear(), lines 261-270.
RecentClear ==
    /\ recent' = [recent EXCEPT !.stored = <<>>]
    /\ UNCHANGED <<schedVars, current_progress, dl, blocker>>

\* RecentManager.set_max_items(max_items), lines 305-313.
SetMaxItems(max_items) ==
    /\ recent' = IF max_items > 0
                 THEN [recent EXCEPT !.max_items = max_items,
                                     !.stored = SubSeq(Load, 1, Min(max_items, Len(Load)))]
                 ELSE recent
    /\ UNCHANGED <<schedVars, current_progress, dl, blocker>>

\* RecentFoldersManager.add_folder(folder_path), lines 424-429.
AddFolder(path) ==
    /\ recent' = [recent EXCEPT !.recent_folders =
                     InsertFirst(SelectSeq(@, LAMBDA f : f # Resolve(path)),
                                 Resolve(path), recent.folders_max_items)]
    /\ UNCHANGED <<schedVars, current_progress, dl, blocker>>

\* A downloaded file is deleted or moved away by the user: Path.exists() is
\* false for it from then on (lines 160 and 197).
FileRemoved(file) ==
    /\ file \in recent.files
    /\ recent' = [recent EXCEPT !.files = @ \ {file}]
    /\ UNCHANGED <<schedVars, current_progress, dl, blocker>>

\* SpecRecent, the two managers of the main window and the calls of their
\* methods.
InitRecent ==
    /\ SchedulerIdle
    /\ current_progress = NewProgress
    /\ dl = NoCall
    /\ blocker = NewBlocker
    /\ recent = NewRecent

NextRecent ==
    \/ \E path \in RecentPaths : RecentAdd(path)
    \/ \E path \in RecentPaths : RecentRemove(path)
    \/ RecentClear
    \/ \E n \in -1 .. MaxItems + 1 : SetMaxItems(n)
    \/ \E path \in RecentPaths : AddFolder(path)
    \/ \E file \in RecentFiles : FileRemoved(file)

SpecRecent == InitRecent /\ [][NextRecent]_vars

\* ------------------------------------------------- progress samples
\* A progress computation without the min of line 241: the one
\* C31_ProgressWithinRange has to tell from the computation of the code.
ProgressPercentUncapped(downloaded_bytes, total_bytes) ==
    IF total_bytes # NoTotal /\ total_bytes > 0
    THEN Fraction(downloaded_bytes * 100, total_bytes)
    ELSE Fraction(0, 1)

\* progress_percent of lines 239-241: 0.0 without a positive total, else
\* min(100.0, (downloaded_bytes / total_bytes) * 100).
ProgressPercent(downloaded_bytes, total_bytes) ==
    IF total_bytes # NoTotal /\ total_bytes > 0
    THEN IF downloaded_bytes * 100 >= 100 * total_bytes
         THEN Fraction(100, 1)
         ELSE Fraction(downloaded_bytes * 100, total_bytes)
    ELSE Fraction(0, 1)

\* _handle_downloading_progress, lines 233-251: _current_progress is replaced
\* by a sample built from the event.
HandleDownloadingProgress(downloaded_bytes, total_bytes) ==
    /\ current_progress' =
          [progress |-> ProgressPercent(downloaded_bytes, total_bytes),
           downloaded_bytes |-> downloaded_bytes,
           total_bytes |-> total_bytes]
    /\ UNCHANGED <<schedVars, dl, blocker, recent>>

\* _handle_finished_progress, line 263, and run, line 115: progress = 100.0.
HandleFinishedProgress ==
    /\ current_progress' = [current_progress EXCEPT !.progress = Fraction(100, 1)]
    /\ UNCHANGED <<schedVars, dl, blocker, recent>>

\* SpecProgress, the progress samples of one job: the events of the executor
\* in any order.
InitProgress ==
    /\ SchedulerIdle
    /\ current_progress = NewProgress
    /\ dl = NoCall
    /\ blocker = NewBlocker
    /\ recent = NewRecent

\* The byte counts of the executor's events; the total (line 233) is a
\* positive count, or 0 or None, which both fail the test of line 240.
NextProgress ==
    \/ \E d \in 0..MaxBytes, t \in {NoTotal} \cup 0..MaxBytes : HandleDownloadingProgress(d, t)
    \/ HandleFinishedProgress

SpecProgress == InitProgress /\ [][NextProgress]_vars

\* The state add_download leaves when it is called once on a new manager.
InitJob ==
    /\ max_concurrent_downloads \in 1..MaxConc
    /\ active_downloads = EmptyDict
    /\ download_queue = <<1>>
    /\ completed_downloads = <<>>
    /\ is_running = TRUE
    /\ mpc = "loop"
    /\ slots = 0
    /\ hand = NoJob
    /\ tpc = [j \in Jobs |-> IF j = 1 THEN "new" ELSE "none"]
    /\ download_id = [j \in Jobs |-> 0]
    /\ status = [j \in Jobs |-> PENDING]
    /\ is_paused = [j \in Jobs |-> FALSE]
    /\ is_cancelled = [j \in Jobs |-> FALSE]
    /\ error_message = [j \in Jobs |-> <<>>]
    /\ error_type = [j \in Jobs |-> "none"]
    /\ cbpc = [j \in Jobs |-> "idle"]
    /\ ev = [j \in Jobs |-> "none"]
    /\ fresh = [j \in Jobs |-> FALSE]
    /\ events = [j \in Jobs |-> 0]
    /\ terminal_events = [j \in Jobs |-> 0]
    /\ samples = [j \in Jobs |-> 0]
    /\ start_order = <<>>
    /\ now = 0
    /\ gui = <<"idle">>
    /\ LibInit

\* SpecJob, one job of the program as it is composed, from its submission on:
\* the manager thread, the job's thread, and pause, resume and cancel.
NextJob == ManagerStep \/ ThreadStep \/ JobCall

SpecJob == InitJob /\ [][NextJob]_vars

\* SpecHook, one job whose _progress_callback the executor calls, as line 98
\* registers it: SpecJob and the steps of the hook.
NextHook == NextJob \/ HookStep

SpecHook == InitJob /\ [][NextHook]_vars

\* ============================================================= claims
\* Threads that were started and whose run() has not returned.
RunningThreads == {j \in Jobs : IsRunning(j)}

\* The collections a job is in: the queue and the running set hold job
\* objects, the retired history holds ids.
InQueue(j) == j \in Range(download_queue)
InRunningSet(j) == j \in Values(active_downloads)
InRetired(j) == download_id[j] \in Range(completed_downloads)
Membership(j) ==
    (IF InQueue(j) THEN 1 ELSE 0) + (IF InRunningSet(j) THEN 1 ELSE 0)
        + (IF InRetired(j) THEN 1 ELSE 0)

\* C1: the number of download threads that have been started and have not
\* finished is at most max_concurrent_downloads. Stated for the states in
\* which the bound has the largest value it is ever given, so that no
\* earlier lowering of the bound accounts for an excess.
C1_RunningWithinBound ==
    max_concurrent_downloads = MaxConc =>
        Cardinality(RunningThreads) <= max_concurrent_downloads

\* C2: every job submitted through add_download is in exactly one of the
\* queue, the running set and the retired history.
C2_ExactlyOneCollection == \A j \in Created : Membership(j) = 1

\* C3: a status changes only along Pending -> Running -> {Paused <-> Running}
\* -> {Completed | Failed | Cancelled}: a terminal status is never left and
\* Pending is never re-entered.
StatusEdge(a, b) ==
    \/ a = b
    \/ a = PENDING /\ b = DOWNLOADING
    \/ a = DOWNLOADING /\ b \in {PAUSED} \cup Terminal
    \/ a = PAUSED /\ b \in {DOWNLOADING} \cup Terminal
C3_StatusGraph == [][\A j \in Jobs : StatusEdge(status[j], status'[j])]_vars

\* C4: a Paused job changes status only to Running or to Cancelled, never
\* directly to Completed or Failed.
C4_PausedLeavesByResumeOrCancel ==
    [][\A j \in Jobs : status[j] = PAUSED =>
            status'[j] \in {PAUSED, DOWNLOADING, CANCELLED}]_vars

\* C5: dispatch is FIFO. Jobs are started in the order they were submitted,
\* and no job is started while a job submitted before it still waits in the
\* queue; with a bound of 2 and jobs 1, 2, 3 the starts are 1, 2, 3.
C5_FifoDispatch ==
    /\ \A i, k \in DOMAIN start_order : i < k => start_order[i] < start_order[k]
    /\ \A a, b \in Jobs :
         a < b /\ b \in Range(start_order) => ~InQueue(a) /\ hand # a

\* C5 witness: the bound is 2, jobs 1, 2, 3 have distinct ids, job 1 has
\* finished and is retired while job 2 still runs, and job 3 was started.
C5_Witness ==
    /\ max_concurrent_downloads = 2
    /\ start_order = <<1, 2, 3>>
    /\ Cardinality({download_id[1], download_id[2], download_id[3]}) = 3
    /\ tpc[1] = "done" /\ InRetired(1)
    /\ IsRunning(2) /\ IsRunning(3)

\* C6: with more jobs submitted than the bound k, never more than k jobs are
\* Running. Stated, as C1 is, for the states in which the bound has the
\* largest value it is ever given.
RunningJobs == {j \in Jobs : status[j] = DOWNLOADING}
C6_AtMostKRunning ==
    max_concurrent_downloads = MaxConc /\ Cardinality(Created) > MaxConc =>
        Cardinality(RunningJobs) <= max_concurrent_downloads

\* C7: remove_download(id), called with the id of a job that is still
\* queued, removes that job from the queue.
C7_QueuedCancelRemoves ==
    [][\A j \in Jobs : InQueue(j) /\ RemoveDownload(j) =>
            j \notin Range(download_queue')]_vars

\* C8: while a job is Paused no progress sample is emitted for it until
\* resume() is called: the only step that emits one is the resume itself.
C8_NoSampleWhilePaused ==
    [][\A j \in Jobs : status[j] = PAUSED /\ samples'[j] # samples[j] =>
            gui = <<"resume", j>>]_vars

\* C9: over a job's whole execution exactly one terminal event
\* (download_completed or download_cancelled) is emitted.
C9_OneTerminalEvent ==
    \A j \in Jobs :
        /\ terminal_events[j] <= 1
        /\ tpc[j] = "done" => terminal_events[j] = 1

\* C10: a job on which cancel() was called has no executor context blocked on
\* its wait condition: cancel() wakes the context, and the hook does not wait
\* once the flag is set.
C10_CancelledNeverBlocked ==
    \A j \in Jobs : is_cancelled[j] => cbpc[j] # "waiting"

\* C11: once resume() has cleared the pause flag no executor context is left
\* blocked on the job's wait condition: a context waits only while _is_paused
\* is set, so the wakeAll of resume() reaches every context that has tested
\* the flag.
C11_WaitsOnlyWhilePaused ==
    \A j \in Jobs : cbpc[j] = "waiting" => is_paused[j]


\* C12: when the hook handles an "error" event whose message is EventError
\* ("timeout"), the job is Failed, the error_occurred emission has kind
\* "network" and the stored error message is exactly the event's message.
C12_ErrorEventKindAndMessage ==
    [][\A j \in Jobs : CbHandle(j) /\ ev[j] = "error" =>
            /\ status'[j] = FAILED
            /\ error_type'[j] = "network"
            /\ error_message'[j] = EventError]_vars


\* C13: set_max_concurrent_downloads changes the bound and nothing else: the
\* running set, the queue and every job are as they were. The bound then
\* acts on dispatch only: a pass that begins under a bound of 1 while a
\* started thread still runs starts no queued job.
C13_SetMaxOnlyLimitsDispatch ==
    [][/\ \A n \in 0..MaxConc : SetMaxConcurrentDownloads(n) =>
              UNCHANGED <<active_downloads, download_queue, completed_downloads,
                          jobVars, errVars, cbVars>>
       /\ PassBegin /\ max_concurrent_downloads = 1 /\ RunningThreads # {} =>
              slots' = 0]_vars


\* C14: a queued job is eventually started. Only the manager thread starts
\* jobs, so whenever a job waits in the queue the manager thread is alive:
\* add_download has started it, or it has not finished yet and will make
\* another pass.
C14_QueuedJobHasDispatcher == download_queue # <<>> => mpc # "stopped"


\* C15: a job constructed with an invalid spec (empty URL, empty output path,
\* unwritable or uncreatable output directory) fails without its status ever
\* having been Running: when validation rejects the input the status is still
\* Pending, and the step leaves the thread finished, the executor not called.
C15_InvalidSpecNeverRunning ==
    [][\A j \in Jobs, input \in InvalidInputs : Validate(j, input) =>
            /\ status[j] = PENDING
            /\ status'[j] = FAILED
            /\ tpc'[j] = "done"]_vars


\* C16: when the executor returns having succeeded (ydl_ok) and the job was
\* not cancelled, the job's status becomes Completed and one terminal event
\* is emitted.
C16_SuccessCompletes ==
    [][\A j \in Jobs : ExecReturns(j, TRUE) /\ ~is_cancelled[j] =>
            /\ status'[j] = COMPLETED
            /\ terminal_events'[j] = terminal_events[j] + 1]_vars

\* C17: when the executor returns and cancel() was called before it did, the
\* job's status becomes Cancelled, never Completed or Failed.
C17_CancelledBeforeReturn ==
    [][\A j \in Jobs : ExecReturn(j) /\ is_cancelled[j] =>
            status'[j] = CANCELLED]_vars


\* C18: the throttle never drops a terminal event: when the hook is called
\* with a "finished" or "error" event for a job that is not cancelled, the
\* event is taken on for handling however recent the last forwarded sample.
C18_TerminalEventNotThrottled ==
    [][\A j \in Jobs, e \in {"finished", "error"} :
            CbEnter(j, e) /\ ~is_cancelled[j] => ev'[j] = e]_vars


\* C19: however run() ends, it ends inside the job: the step that finishes
\* the thread leaves the status Failed and a non-empty error message stored,
\* and emits error_occurred with one of the kinds run hands to _handle_error.
C19_RunEndsFailedWithMessage ==
    [][\A j \in Jobs : tpc[j] # "done" /\ tpc'[j] = "done" =>
            /\ status'[j] = FAILED
            /\ error_message'[j] # <<>>
            /\ error_type'[j] \in {"validation", "storage", "unknown"}]_vars

\* C19 witness: a run has ended by the exception of _setup_output_directory,
\* with its kind emitted and its message stored.
C19_Witness ==
    /\ tpc[1] = "done"
    /\ status[1] = FAILED
    /\ error_type[1] = "storage"
    /\ error_message[1] = <<"Failed to create output directory: ", "OSError">>


\* What belongs to job k alone: its thread, id, status, flags, error and the
\* events and samples counted for it.
JobState(k) ==
    <<tpc[k], download_id[k], status[k], is_paused[k], is_cancelled[k],
      error_message[k], error_type[k], cbpc[k], ev[k], events[k],
      terminal_events[k], samples[k]>>

\* C20: the step by which a job becomes Failed changes nothing of any other
\* job, queued or running, and nothing of the manager: the queue, the running
\* set, the retired history and the manager thread are as they were, so the
\* manager goes on retiring and dispatching.
C20_FailureIsIsolated ==
    [][\A j \in Jobs : status[j] # FAILED /\ status'[j] = FAILED =>
            /\ \A k \in Jobs \ {j} : JobState(k)' = JobState(k)
            /\ UNCHANGED mgrVars]_vars

\* C20 witness: under a bound of 2, job 1 has failed and is retired, job 2
\* is still downloading, and the manager has started the queued job 3.
C20_Witness ==
    /\ max_concurrent_downloads = 2
    /\ Cardinality({download_id[1], download_id[2], download_id[3]}) = 3
    /\ status[1] = FAILED /\ InRetired(1)
    /\ status[2] = DOWNLOADING /\ tpc[2] = "exec" /\ InRunningSet(2)
    /\ tpc[3] = "start" /\ status[3] = PENDING


\* C21: job identifiers are unique: no two constructed jobs have the same
\* download_id, whether or not they were constructed in the same second.
C21_UniqueIds ==
    \A a, b \in Created : a # b => download_id[a] # download_id[b]


\* C22: a job is started at most once. No job occurs twice among the starts;
\* a job enters the queue only when it is constructed, and it enters the
\* running set only from the hand of the dispatch pass, as a thread that was
\* never started: a job that was started or retired enters neither again.
C22_StartedAtMostOnce ==
    [][/\ \A i, k \in DOMAIN start_order' :
              i # k => start_order'[i] # start_order'[k]
       /\ \A j \in Jobs : InQueue(j)' /\ ~InQueue(j) => tpc[j] = "none"
       /\ \A j \in Jobs : InRunningSet(j)' /\ ~InRunningSet(j) =>
              hand = j /\ tpc[j] = "new"]_vars

\* C22 witness: jobs 1 and 2 were started in turn, job 1 has finished and was
\* retired, stop_manager has cancelled job 2 and is about to clear the queue,
\* in which job 3 waits.
C22_Witness ==
    /\ start_order = <<1, 2>>
    /\ tpc[1] = "done" /\ ~InRunningSet(1) /\ ~InQueue(1)
    /\ download_id[1] \in Range(completed_downloads)
    /\ IsRunning(2) /\ is_cancelled[2]
    /\ gui = <<"stop_manager">>
    /\ download_queue = <<3>>


\* C23: pause_download(id) returns true only when the call changes the job,
\* that is when the job with that id is Running, and resume_download(id) only
\* when it is Paused; for every other id and state they return false.
C23_TrueOnlyWhenChanged ==
    \A id \in Ids :
        /\ PauseDownloadReturn(id) => PauseTest(active_downloads[id])
        /\ ResumeDownloadReturn(id) => ResumeTest(active_downloads[id])


\* C24: pause_all() changes every Running job of the running set to Paused
\* and returns the number of jobs it changed, and resume_all() does the same
\* for Paused jobs: whenever the counter of either call goes up by one, the
\* job it counts has just gone from Running to Paused (from Paused to Running).
C24_CountsOnlyChangedJobs ==
    [][/\ gui[1] \in {"pause_all_call", "pause_all_set"} /\ gui'[1] = "pause_all"
          => status[gui[5]] = DOWNLOADING /\ status'[gui[5]] = PAUSED
       /\ gui[1] \in {"resume_all_call", "resume_all_set"} /\ gui'[1] = "resume_all"
          => status[gui[5]] = PAUSED /\ status'[gui[5]] = DOWNLOADING]_vars


\* C25: cancel_all() sets the cancel flag of every job of the running set and
\* empties the queue without starting a queued job: when it returns, the
\* queue is empty, every job of the running set has its cancel flag set, and
\* no job was started while the call was in progress.
C25_CancelAllCancelsEveryJob ==
    [][/\ gui = <<"cancel_all">> => start_order' = start_order
       /\ gui = <<"cancel_all">> /\ gui' = <<"idle">>
          => /\ download_queue' = <<>>
             /\ \A j \in Values(active_downloads') : is_cancelled'[j]]_vars


\* C26: cancel() is idempotent: a call of cancel() on a job whose cancel flag
\* is already set changes neither the job's flags nor its status, nor whether
\* its thread is blocked in the progress hook or goes on to a terminal state.
C26_CancelIdempotent ==
    [][\A j \in Jobs :
          /\ RemoveDownload(j)
          /\ active_downloads[download_id[j]] = j
          /\ is_cancelled[j]
          => UNCHANGED <<is_cancelled[j], is_paused[j], status[j], cbpc[j]>>]_vars


\* C27: add_download constructs a job in Pending state with both flags clear
\* and appends it at the tail of the queue; the jobs already queued keep
\* their order, the running set, the retired history and the state of every
\* existing job are unchanged, and the id returned (line 363) is the id of
\* the job at the tail of the queue.
C27_AddAppendsPendingJob ==
    [][\A same_second \in BOOLEAN :
          AddDownload(same_second) =>
             /\ Len(download_queue') = Len(download_queue) + 1
             /\ SubSeq(download_queue', 1, Len(download_queue)) = download_queue
             /\ LET j == download_queue'[Len(download_queue')] IN
                   /\ j \notin Created
                   /\ Created' = Created \cup {j}
                   /\ status'[j] = PENDING
                   /\ ~is_paused'[j] /\ ~is_cancelled'[j]
                   /\ download_id'[j] = NewDownloadId(now')
             /\ UNCHANGED <<active_downloads, completed_downloads,
                            max_concurrent_downloads>>
             /\ \A k \in Created :
                   UNCHANGED <<tpc[k], download_id[k], status[k], is_paused[k],
                               is_cancelled[k], cbpc[k]>>]_vars

\* add_download has appended job 3 behind the queued job 2, and job 1 is
\* running.
C27_Witness ==
    /\ download_queue = <<2, 3>>
    /\ active_downloads[download_id[1]] = 1
    /\ IsRunning(1)
    /\ status[1] = DOWNLOADING
    /\ status[3] = PENDING


\* C28: the observers get_download_by_id, get_active_downloads,
\* get_queued_downloads, get_download_count, get_all_downloads_info,
\* get_download_info and _emit_queue_stats leave the queue, the running set,
\* the retired history, max_concurrent_downloads and the status and the
\* flags of every job as they were.
C28_ObserversChangeNothing ==
    [][ObserverCall \/ ObserverReturn =>
          UNCHANGED <<download_queue, active_downloads, completed_downloads,
                      max_concurrent_downloads, status, is_paused,
                      is_cancelled>>]_vars

\* get_all_downloads_info has reported a paused job of the running set and a
\* job of the queue as "queued", and the queued job is still Pending.
C28_Witness ==
    /\ gui[1] = "observe"
    /\ gui[2] = "get_all_downloads_info"
    /\ gui[3] = <<[download_id |-> 0, status |-> PAUSED],
                  [download_id |-> 1, status |-> "queued"]>>
    /\ status[2] = PENDING
    /\ download_queue = <<2>>
    /\ is_paused[1]


\* C29: max_concurrent_downloads is at least 1 in every reachable state,
\* whatever value the constructor was given and whatever
\* set_max_concurrent_downloads was called with.
C29_BoundAtLeastOne == max_concurrent_downloads >= 1


\* C30: once a sample with a terminal status has been emitted for a job, no
\* sample with a non-terminal status is emitted for it. COMPLETED and FAILED
\* are stored together with the emission of a sample, so a job in one of
\* them has had its terminal sample emitted.
C30_NoSampleAfterTerminal ==
    [][\A j \in Jobs :
          status[j] \in {COMPLETED, FAILED} /\ samples'[j] > samples[j]
          => status'[j] \in Terminal]_vars


\* C31: the progress stored in a job's progress sample is within [0, 100],
\* for every event with downloaded_bytes >= 0 and any total_bytes: absent,
\* zero, smaller or larger than downloaded_bytes.
C31_ProgressWithinRange ==
    /\ current_progress.progress.den > 0
    /\ current_progress.progress.num >= 0
    /\ current_progress.progress.num <= 100 * current_progress.progress.den

\* An event with more bytes downloaded than the total has been handled, and
\* the progress stored is 100.
C31_Witness ==
    /\ current_progress.total_bytes > 0
    /\ current_progress.downloaded_bytes > current_progress.total_bytes
    /\ current_progress.progress = Fraction(100, 1)


\* C32: if the start of a job's thread fails during a dispatch pass, the job
\* is put back at the head of the queue and is not left in the running set.
C32_FailedStartRequeues ==
    [][DispatchStartFails =>
          /\ download_queue' = <<hand>> \o download_queue
          /\ hand \notin Values(active_downloads')]_vars


\* C33: every mutation of the queue, the running set and the retired history
\* happens with the manager mutex held, so while a dispatch pass holds the
\* mutex only the pass itself changes them; remove_download and cancel_all
\* cannot change the queue in the middle of a pass.
C33_MutationsUnderMutex ==
    [][/\ ~MutexFree
       /\ <<download_queue, active_downloads, completed_downloads>>'
             # <<download_queue, active_downloads, completed_downloads>>
       => ManagerStep]_vars


\* C34: the pause flag and the status of a job agree in every reachable
\* state: _is_paused is true if and only if the status is Paused.
C34_PauseFlagMatchesStatus ==
    \A j \in Jobs : is_paused[j] <=> status[j] = PAUSED


\* C35: the manager reports itself idle only when it has no work: whenever
\* _is_running is false and no call of the GUI thread is in progress, the
\* queue and the running set are both empty.
C35_IdleMeansNoWork ==
    gui = <<"idle">> /\ ~is_running
    => download_queue = <<>> /\ Keys(active_downloads) = {}


\* C36: when stop_manager() returns the queue is empty, and from then on no
\* job is started until add_download is called again (which sets
\* _is_running): a dispatch pass that runs concurrently with stop_manager
\* starts no job after the queue was cleared.
C36_NothingStartsAfterStop ==
    [][/\ StopManagerClear => download_queue' = <<>>
       /\ gui = <<"idle">> /\ ~is_running => start_order' = start_order]_vars


\* C37: Downloader.download never raises and returns a boolean, and when it
\* returns False and was given a callback, the last message the callback has
\* received is the error message.
C37_DownloadReturnsAndReports ==
    /\ dl.phase # "raised"
    /\ dl.phase = "returned" => dl.value \in BOOLEAN
    /\ dl.phase = "returned" /\ ~dl.value /\ dl.cb # "none"
       => dl.msgs # <<>> /\ dl.msgs[Len(dl.msgs)] \in ErrorMessages


\* C38: is_blocked(url) returns the decision an uncached evaluation of the
\* current rules (_perform_blocking_check) gives, whatever calls came before,
\* and the result cache never holds more than _cache_max_size entries.
C38_CacheNeverStale ==
    [][/\ \A url \in BlockerUrls, expired \in BOOLEAN :
             IsBlocked(url, expired)
                 => blocker'.returned.is_blocked = PerformBlockingCheck(url)
       /\ Len(blocker'.cache) <= CacheMaxSize]_vars

\* A decision served from the cache for a URL the whitelist lets through while
\* an enabled keyword rule matches it, with the cache full.
C38_Witness ==
    /\ blocker.returned.cache_hit
    /\ ~blocker.returned.is_blocked
    /\ blocker.whitelist # {}
    /\ blocker.keyword_rules["adult"] = "enabled"
    /\ Len(blocker.cache) = CacheMaxSize
    /\ \E i \in DOMAIN blocker.cache :
          /\ "adult" \in blocker.cache[i].url.words
          /\ ~blocker.cache[i].is_blocked


\* C39: for a URL whose host (the netloc without the port), a leading "www."
\* removed, is in the whitelist
\* or is a subdomain of a whitelisted domain, is_blocked returns not-blocked,
\* whichever enabled rules match the URL.
C39_WhitelistOverridesRules ==
    [][\A url \in BlockerUrls \ {EmptyUrl}, expired \in BOOLEAN :
          IsBlocked(url, expired) /\ IsWhitelisted(StripWww(Name(url.netloc.labels, "")))
              => ~blocker'.returned.is_blocked]_vars


\* C40: whatever add, remove, clear, set_max_items and add_folder calls were
\* made, neither stored list holds a path twice or more than max_items
\* entries, the stored items are in the order they were added, latest first,
\* and a path that has just been added is the first entry (add stores
\* nothing for a path that is no file).
C40_RecentListKept ==
    [][/\ \A i, k \in DOMAIN recent'.stored :
             i < k => /\ recent'.stored[i].file_path # recent'.stored[k].file_path
                      /\ recent'.stored[i].download_time > recent'.stored[k].download_time
       /\ Len(recent'.stored) <= recent'.max_items
       /\ \A i, k \in DOMAIN recent'.recent_folders :
             i < k => recent'.recent_folders[i] # recent'.recent_folders[k]
       /\ Len(recent'.recent_folders) <= recent'.folders_max_items
       /\ \A path \in RecentPaths :
             /\ RecentAdd(path) /\ Resolve(path) \in recent.files
                   => recent'.stored[1].file_path = Resolve(path)
             /\ AddFolder(path) => recent'.recent_folders[1] = Resolve(path)]_vars

\* Both lists full, the stored one after a path it already held was added
\* again under another name and after set_max_items changed the bound.
C40_Witness ==
    /\ recent.max_items = 3
    /\ Len(recent.stored) = 3
    /\ recent.stored[1].file_path = "/d/a"
    /\ recent.stored[1].download_time > 3
    /\ Len(recent.recent_folders) = recent.folders_max_items

=============================================================================
